---- MODULE Spec2Model ----
(***************************************************************************)
(* A model of imageLib's Hough line detector (lineDetection.cpp), of the   *)
(* line primitives it uses (CBioCADLine, CBioCADLineSet), of the helpers   *)
(* in approximateMath.h and of the luminance table (edgeDetection.cpp).    *)
(*                                                                         *)
(* Numbers.  The C++ code computes slopes, y-intercepts and lengths in     *)
(* double.  The model keeps slopes and intercepts as exact rationals       *)
(* [n, d] with d > 0 and lengths as squared integers; every comparison     *)
(* the code makes on them (<=, <, casts to int) is made on the exact       *)
(* value.  Coordinates stay far below 2^15, so no int32 overflows.         *)
(***************************************************************************)
EXTENDS Integers, Sequences, FiniteSets, TLC

VARIABLES
    pc,                     \* position inside DetectLines
    squishy,                \* options & CELL_GEOMETRY_LINE_DETECTION_STYLE_SQUISHY_BLOBS
    edges,                  \* pEdgesImage: the set of pixels equal to m_BlackPixel
    fullImage,              \* pFullImage: the set of pixels whose value is 0x0000FF
    width,                  \* imageWidthInPixels of pEdgesImage and of the luminance map
    height,                 \* imageHeightInPixels of pEdgesImage and of the luminance map
    infoTable,              \* pLuminanceMap->m_pInfoTable
    query,                  \* history: the last query of a table or of the vote
                            \* array, and what it read
    srcImage,               \* pSrcImage of Initialize: the colour of each pixel
    blackWhiteThreshold,    \* blackWhiteThreshold of Initialize
    rawChange,              \* history: rawLuminanceChange of each pixel in Initialize
    box,                    \* the boundingBox arguments of DetectLines
    maxLength,              \* detectorState.m_MaxPerpendicularLength
    voteArray,              \* detectorState.m_pVoteArray: the cells that have votes
    vx,                     \* x of the voting loops
    vy,                     \* y of the voting loops
    hk,                     \* the harvest loop is at theta = min + hk * increment
    voters,                 \* history: the pixels that voted for each index
    indexRange,             \* history: the least and greatest index GetPossibleLine computed
    lineList,               \* detectorState.m_pLineList, head of the linked list first
    numLines,               \* detectorState.m_NumLines
    numDuplicateLines,      \* detectorState.m_NumDuplicateLines
    numLinesWithMinVotes,   \* detectorState.m_NumLinesWithMinVotes
    numPossibleLines,       \* detectorState.m_NumPossibleLines
    outList,                \* the caller's CBioCADLineSet: m_pLineList[0 .. m_NumLines-1]
    fed,                    \* history: the cells handed to RecordOneLine, in order
    harvested,              \* history: m_pLineList as it was handed to SetLineList
    call,                   \* which arguments of DetectLines are non-NULL, what the
                            \* caller's line set held on entry, the step that fails
    err,                    \* err of DetectLines
    pVoteArray,             \* whether detectorState.m_pVoteArray is NULL or allocated
    numAllocs,              \* history: the successful memCalloc calls of DetectLines
    numFrees,               \* history: the memFree calls on an allocated vote array
    nullDeref               \* history: a NULL argument was dereferenced

\* the arguments of DetectLines and of Initialize, and what is derived from
\* them once
inputVars ==
    <<squishy, edges, width, height, infoTable, box, maxLength, srcImage,
      blackWhiteThreshold, rawChange, call>>

\* the accumulator and the loops over it
voteVars == <<voteArray, vx, vy, hk, voters, indexRange>>

\* the detector's lines and counters
lineVars == <<lineList, numLines, numDuplicateLines, numLinesWithMinVotes,
              numPossibleLines, fed>>

\* the return value of DetectLines and the life of its vote array
exitVars == <<err, pVoteArray, numAllocs, numFrees, nullDeref>>

vars == <<pc, fullImage, outList, harvested, query, inputVars, voteVars, lineVars,
          exitVars>>

----------------------------------------------------------------------------
(* Bounds of the model *)

\* harvest loop iterations explored in one run of DetectLines
MaxCells == 3

\* size of the images explored (GetImageInfo)
ImageWidth == 100

ImageHeight == 100

----------------------------------------------------------------------------
(* Program constants: lineDetection.cpp:568-584 *)

MinVotesSquishy == 10

MinVotesStrict == 90

MinPointResolution == 10

\* m_AngleResolutionInRadians = 0.4 = AngleResolutionNum / AngleResolutionDen
AngleResolutionNum == 2

AngleResolutionDen == 5

MaxGapBetweenDashesInLine == 10

MinUsefulLengthSquishy == 5

MinUsefulLengthStrict == 50

\* m_MinPixelDensityForRealLine = 1 / 5 is an integer division in C++
MinPixelDensityForRealLine == 1 \div 5

MinVotesForRealLine == IF squishy THEN MinVotesSquishy ELSE MinVotesStrict

MinUsefulLineLength == IF squishy THEN MinUsefulLengthSquishy ELSE MinUsefulLengthStrict

----------------------------------------------------------------------------
(* Points and exact arithmetic *)

Pt(x, y) == <<x, y>>

Abs(i) == IF i < 0 THEN -i ELSE i

RECURSIVE Gcd(_, _)
Gcd(a, b) == IF b = 0 THEN a ELSE Gcd(b, a % b)

\* the rational n/d (d # 0) in lowest terms with a positive denominator
Rat(n, d) ==
    LET g == Gcd(Abs(n), Abs(d))
        s == IF d < 0 THEN -1 ELSE 1
    IN  [n |-> (s * n) \div g, d |-> (s * d) \div g]

RatOfInt(i) == [n |-> i, d |-> 1]

RatAbs(r) == [n |-> Abs(r.n), d |-> r.d]

RatSub(r, s) == Rat(r.n * s.d - s.n * r.d, r.d * s.d)

RatAdd(r, s) == Rat(r.n * s.d + s.n * r.d, r.d * s.d)

RatMul(r, s) == Rat(r.n * s.n, r.d * s.d)

RatLeq(r, s) == r.n * s.d <= s.n * r.d

RatLess(r, s) == r.n * s.d < s.n * r.d

\* (int32) of a double: truncation toward zero
RatTrunc(r) == IF r.n >= 0 THEN r.n \div r.d ELSE -((-r.n) \div r.d)

----------------------------------------------------------------------------
(* approximateMath.h *)

IntValuesAreClose(value1, value2, resolution) ==
    Abs(Abs(value1) - Abs(value2)) <= resolution

DoubleValuesAreClose(value1, value2, resolution) ==
    RatLeq(RatAbs(RatSub(RatAbs(value1), RatAbs(value2))), resolution)

----------------------------------------------------------------------------
(* CBioCADPoint / CBioCADLine *)

\* the square of GetDistanceBetweenPoints (m_Z is 0 for every point here)
Dist2(a, b) == (a[1] - b[1]) * (a[1] - b[1]) + (a[2] - b[2]) * (a[2] - b[2])

\* The square of what CBioCADLine::GetLength returns: the cached m_Length
\* unless it is still 0.0, and then the distance between the endpoints.
GetLength2(line) == IF line.len2 = 0 THEN Dist2(line.A, line.B) ELSE line.len2

\* GetLength also stores what it returns in m_Length.
WithLengthCached(line) == [line EXCEPT !.len2 = GetLength2(line)]

\* slope = deltaY / deltaX with deltaX = 1 substituted for 0
SlopeOf(a, b) ==
    LET deltaX == b[1] - a[1]
        deltaY == b[2] - a[2]
    IN  Rat(deltaY, IF deltaX = 0 THEN 1 ELSE deltaX)

\* yIntercept = y - slope * x
InterceptOf(a, slope) == RatSub(RatOfInt(a[2]), RatMul(slope, RatOfInt(a[1])))

----------------------------------------------------------------------------
(* CEdgeDetection / CImageFile pixel access used by the detector *)

\* CBMPImageFile::GetPixel and SetPixel reject x < 0, y < 0, x > width and
\* y > height (x = width and y = height pass the validation).
PixelAccepted(x, y) ==
    /\ x >= 0
    /\ y >= 0
    /\ x <= width
    /\ y <= height

\* GetPixel(x, y) succeeds and returns m_BlackPixel
IsBlackPixel(x, y) == PixelAccepted(x, y) /\ Pt(x, y) \in edges

----------------------------------------------------------------------------
(* OverlapNewLineWithExistingLines, lineDetection.cpp:1057-1162 *)

AngleResolutionInRadians == Rat(AngleResolutionNum, AngleResolutionDen)

\* lines 1083-1093: same slope and same intercept, as DoubleValuesAreClose sees them
SimilarLines(existing, slope, yIntercept) ==
    /\ DoubleValuesAreClose(slope, existing.slope, AngleResolutionInRadians)
    /\ DoubleValuesAreClose(yIntercept, existing.yint, RatOfInt(MinPointResolution))

\* lines 1095-1130: the endpoint tests that set fOverlappingLines
EndpointsOverlap(existing, cell) ==
    \/ (existing.A[1] >= cell.A[1] /\ existing.A[1] <= cell.B[1])
    \/ (existing.B[1] >= cell.A[1] /\ existing.B[1] <= cell.B[1])
    \/ IntValuesAreClose(existing.A[1], cell.B[1], MaxGapBetweenDashesInLine)
    \/ IntValuesAreClose(existing.B[1], cell.A[1], MaxGapBetweenDashesInLine)
    \/ Dist2(existing.A, cell.A) <= MinPointResolution * MinPointResolution

OverlappingLines(existing, cell, slope, yIntercept) ==
    SimilarLines(existing, slope, yIntercept) /\ EndpointsOverlap(existing, cell)

\* MergedPointA with <= for <: an existing endpoint with the same x is replaced
MergedPointA_ReplacesTies(existing, cell) ==
    IF cell.A[1] <= existing.A[1] THEN cell.A ELSE existing.A

\* lines 1137-1139
MergedPointA(existing, cell) ==
    IF cell.A[1] < existing.A[1] THEN cell.A ELSE existing.A

\* lines 1140-1142
MergedPointB(existing, cell) ==
    IF cell.B[1] > existing.B[1] THEN cell.B ELSE existing.B

\* line 1152: the intercept is recomputed with the candidate's slope
MergedIntercept(newA, newSlope, slope) == InterceptOf(newA, slope)

\* lines 1133-1153: the existing line after it absorbed the candidate.
\* m_Length, m_NumPixels and m_PixelList are not touched.
ExtendLine(existing, cell, slope) ==
    LET newA == MergedPointA(existing, cell)
        newB == MergedPointB(existing, cell)
        newSlope == SlopeOf(newA, newB)
    IN  [existing EXCEPT !.A = newA, !.B = newB, !.slope = newSlope,
                         !.yint = MergedIntercept(newA, newSlope, slope)]

\* The while loop visits every existing line and never leaves early: each
\* line that overlaps the candidate is extended.  Returns fUsefulLine and
\* the list as the loop leaves it.
OverlapNewLineWithExistingLines(cell, slope, yIntercept, lines) ==
    [useful |-> \A i \in DOMAIN lines :
                    ~OverlappingLines(lines[i], cell, slope, yIntercept),
     lines  |-> [i \in DOMAIN lines |->
                    IF OverlappingLines(lines[i], cell, slope, yIntercept)
                    THEN ExtendLine(lines[i], cell, slope)
                    ELSE lines[i]]]

----------------------------------------------------------------------------
(* RecordOneLine, lineDetection.cpp:880-1044 *)

\* lines 925-934 and the CBioCADLine constructor: the new line.  id is a
\* history field: the number of this admission.
NewLine(cell, slope, yIntercept, id) ==
    [id |-> id, A |-> cell.A, B |-> cell.B, slope |-> slope, yint |-> yIntercept,
     len2 |-> 0, numPixels |-> 0, pixels |-> <<>>]

\* lines 947-1026 for one x: the three GetPixel probes, in program order:
\* y = (int32) theoreticalY, then y + 1, then y + 1 - 1.
ProbesAtX(x, slope, yIntercept) ==
    LET y == RatTrunc(RatAdd(RatMul(RatOfInt(x), slope), yIntercept))
    IN  <<Pt(x, y), Pt(x, y + 1), Pt(x, y)>>

\* lines 945-1027: every probe of the loop over x in A.x .. B.x, in program order
AllProbes(firstX, lastX, slope, yIntercept) ==
    IF lastX < firstX THEN <<>>
    ELSE [k \in 1 .. 3 * (lastX - firstX + 1) |->
            ProbesAtX(firstX + ((k - 1) \div 3), slope, yIntercept)[((k - 1) % 3) + 1]]

ProbeFindsBlack(p) == IsBlackPixel(p[1], p[2])

Reverse(seq) == [i \in 1 .. Len(seq) |-> seq[Len(seq) + 1 - i]]

\* m_PixelList after the loop: each probe that finds a black pixel pushes it
\* on the front of the list
PixelListOf(firstX, lastX, slope, yIntercept) ==
    Reverse(SelectSeq(AllProbes(firstX, lastX, slope, yIntercept), ProbeFindsBlack))

Range(seq) == {seq[i] : i \in DOMAIN seq}

\* lines 972, 997, 1024: every pixel put on the list is also written to
\* pFullImage with SetPixel(x, y, 0x0000FF)
FullImageAfter(image, pixelList) == image \cup Range(pixelList)

\* lines 1030-1031: density = m_NumPixels / GetLength() < m_MinPixelDensity.
\* A length of 0.0 gives NaN or +inf, and the comparison is false.
DensityTooLow(line) ==
    /\ GetLength2(line) # 0
    /\ line.numPixels * line.numPixels
          < MinPixelDensityForRealLine * MinPixelDensityForRealLine * GetLength2(line)

\* AddToList appending at the tail of the list instead
AddToList_AtTail(line, lines) == Append(lines, line)

\* lines 1038-1039: the new line becomes the head of the list
AddToList(line, lines) == <<line>> \o lines

\* The part of the detector state and of the images RecordOneLine works on
DetectorState ==
    [lineList |-> lineList, fullImage |-> fullImage, numLines |-> numLines,
     numDuplicateLines |-> numDuplicateLines]

\* The whole of RecordOneLine for one accumulator cell: the detector state
\* and the full image when it returns.
RecordOneLine(cell, st) ==
    LET slope == SlopeOf(cell.A, cell.B)
        yIntercept == InterceptOf(cell.A, slope)
        merged == OverlapNewLineWithExistingLines(cell, slope, yIntercept, st.lineList)
        line0 == NewLine(cell, slope, yIntercept, st.numLines + 1)
        pixelList == PixelListOf(cell.A[1], cell.B[1], slope, yIntercept)
        line1 == [line0 EXCEPT !.pixels = pixelList]
        line2 == WithLengthCached(line1)
    IN  IF ~merged.useful
        THEN [st EXCEPT !.lineList = merged.lines,
                        !.numDuplicateLines = st.numDuplicateLines + 1]
        ELSE IF DensityTooLow(line1)
        THEN [st EXCEPT !.lineList = merged.lines,
                        !.fullImage = FullImageAfter(st.fullImage, pixelList)]
        ELSE [st EXCEPT !.lineList = AddToList(line2, merged.lines),
                        !.fullImage = FullImageAfter(st.fullImage, pixelList),
                        !.numLines = st.numLines + 1]

----------------------------------------------------------------------------
(* CBioCADLineSet, part_003:1945-1980 and 2028-2087 *)

\* SetLineList copies the linked list into the array, head first
SetLineList(lines) == lines

\* FILTER_BY_MIN_LENGTH prunes a line when GetLength() < value
PrunedByMinLength(line, value) == GetLength2(line) < value * value

\* FilterLines: the lines that are not pruned keep their relative order
RECURSIVE FilterLines(_, _)
FilterLines(lines, value) ==
    IF lines = <<>> THEN <<>>
    ELSE IF PrunedByMinLength(Head(lines), value)
         THEN FilterLines(Tail(lines), value)
         ELSE <<WithLengthCached(Head(lines))>> \o FilterLines(Tail(lines), value)

----------------------------------------------------------------------------
(* The harvest, the merge and the filter of DetectLines                    *)
(*                                                                         *)
(* Spec starts where the voting pass of DetectLines has ended.  The        *)
(* accumulator is not kept cell by cell here (SpecVote below does that):   *)
(* each iteration of the harvest loop meets a cell whose content is drawn  *)
(* from the contents voting can leave behind: two black pixels of the      *)
(* edges image, m_PointA <= m_PointB in (x, then y) order, and no more     *)
(* votes than there are black pixels between the two in that order (a      *)
(* pixel votes at most once for a cell, lines 736-779).                    *)

\* the black pixels (x, y) with x in x0 .. x1 and y in y0 .. y1
Band(x0, x1, y0, y1) == {Pt(x, y) : x \in x0 .. x1, y \in y0 .. y1}

\* The edge images explored: the black pixels of pEdgesImage.
\*  - one horizontal stroke, three pixels thick
\*  - two horizontal strokes 8 rows apart
\*  - two horizontal strokes 50 rows apart
\*  - one vertical stroke, three pixels thick
\*  - two diagonal strokes: y = 15 - x for x in 5 .. 15, y = x - 10 for x in 20 .. 30
EdgeImages ==
    { Band(10, 80, 49, 51),
      Band(10, 80, 19, 21) \cup Band(10, 80, 27, 29),
      Band(10, 80, 9, 11) \cup Band(10, 80, 59, 61),
      Band(49, 51, 5, 98),
      {Pt(x, 15 - x) : x \in 5 .. 15} \cup {Pt(x, x - 10) : x \in 20 .. 30} }

\* (x, then y) order of the voter, lines 765-776
LexLeq(a, b) == a[1] < b[1] \/ (a[1] = b[1] /\ a[2] <= b[2])

\* The pixels sampled as endpoints of cells
SampledEndpoints ==
    {Pt(x, 50) : x \in {10, 14, 40, 45, 80}}
        \cup {Pt(x, y) : x \in {10, 80}, y \in {20, 28, 10, 60}}
        \cup {Pt(50, y) : y \in {5, 14, 15, 24, 98}}
        \cup {Pt(5, 10), Pt(15, 0), Pt(20, 10), Pt(30, 20)}

\* the black pixels from a to b in (x, then y) order
BlackBetween(a, b) == {p \in edges : LexLeq(a, p) /\ LexLeq(p, b)}

\* The cells one harvest iteration can meet
HarvestCells ==
    { cell \in [votes : {MinVotesForRealLine - 1, MinVotesForRealLine},
                A : SampledEndpoints \cap edges,
                B : SampledEndpoints \cap edges,
                recorded : BOOLEAN] :
        /\ LexLeq(cell.A, cell.B)
        /\ cell.votes <= Cardinality(BlackBetween(cell.A, cell.B)) }

\* the test of lines 800-801 with the votes left out
IsRealLine_AnyVotes(cell) == ~cell.recorded

\* the test of lines 800-801 with m_fRecorded left out
IsRealLine_IgnoresRecorded(cell) == cell.votes >= MinVotesForRealLine

\* lines 800-801: the test the harvest loop makes on a cell
IsRealLine(cell) == cell.votes >= MinVotesForRealLine /\ ~cell.recorded

\* the bounding box that stands for the whole image (lines 600-607)
WholeImage == [left |-> 0, top |-> 0, right |-> -1, bottom |-> -1]

\* a table or an array without entries
Empty == [i \in {} |-> 0]

\* no query of the table was made
NoQuery == [name |-> "none"]

\* the values of ErrVal that DetectLines and what it calls return
ENoErr == "ENoErr"
EFail == "EFail"

\* a call of DetectLines: which pointer arguments are non-NULL, the lines the
\* caller's set holds on entry, and the step that fails during the call
CallOf(full, edgesGiven, lines, rebuilt, entry, fails) ==
    [pFullImage |-> full, pEdgesImage |-> edgesGiven, pLineList |-> lines,
     pRebuiltLineImage |-> rebuilt, entryList |-> entry, fails |-> fails]

\* a call with every argument, an empty line set, and no failure
PlainCall == CallOf(TRUE, TRUE, TRUE, FALSE, <<>>, "nothing")

\* memFree(p): the number of blocks it releases
MemFree(p) == IF p = "allocated" THEN 1 ELSE 0

----------------------------------------------------------------------------
(* Angles, sines and lengths of the voting pass                            *)
(*                                                                         *)
(* The code computes them in double.  The model keeps an angle as an       *)
(* integer number of 10^-8 radian, and a sine, a cosine or a perpendicular *)
(* length as an integer number of 10^-6: sin, cos and atan2 are computed   *)
(* to 6 decimals.  Every rounding the code makes itself (the casts to      *)
(* int32, RoundDoubleToInt, LimitDoubleToFixedPrecision) is made by the    *)
(* model as the code makes it.                                             *)

\* units of an angle in one radian
AngleUnit == 100000000

\* units of a length, a sine or a cosine in 1
MicroUnit == 1000000

\* lineDetection.cpp:350, PI = 3.1415927
PI == 314159270

\* lineDetection.cpp:351
PIOver2 == PI \div 2

\* lineDetection.cpp:559, m_AngleIncrement = 0.01
AngleIncrement == 1000000

\* lineDetection.cpp:544, PIOver2 / 4 = 0.3926990875, to the nearest unit
AngleRangeAroundGradientInRadians == (PIOver2 + 2) \div 4

MinPerpendicularLineAngle == -PIOver2

MaxPerpendicularLineAngle == PIOver2

PerpendicularLineAngleModulo == MaxPerpendicularLineAngle - MinPerpendicularLineAngle

\* lines 561-563: (uint32) ((max - min) / increment)
NumPossibleAngleValues ==
    (MaxPerpendicularLineAngle - MinPerpendicularLineAngle) \div AngleIncrement

\* what atan2 returns for (positive, 0): pi / 2 to 8 decimals
AtanOfVertical == 157079633

\* what atan2 returns for (0, negative): pi to 8 decimals
AtanOfBackward == 314159265

\* pi / 2 in units of 10^-6 radian
HalfPiMicro == 1570796

\* (int32) (n / d) for d > 0: the cast truncates toward zero
TruncDiv(n, d) == IF n >= 0 THEN n \div d ELSE -((-n) \div d)

\* a * b / 10^6 for 0 <= a, b <= 10^6, inside 32 bits
MulMicro(a, b) == ((a \div 1000) * b) \div 1000 + ((a % 1000) * b) \div MicroUnit

\* cos(t) for 0 <= t <= pi / 4 in units of 10^-6 radian
CosSmall(t) ==
    LET z  == MulMicro(t, t)
        c4 == MicroUnit - z \div 56
        c3 == MicroUnit - MulMicro(z, c4) \div 30
        c2 == MicroUnit - MulMicro(z, c3) \div 12
    IN  MicroUnit - MulMicro(z, c2) \div 2

\* sin(t) for 0 <= t <= pi / 4 in units of 10^-6 radian
SinSmall(t) ==
    LET z  == MulMicro(t, t)
        s4 == MicroUnit - z \div 72
        s3 == MicroUnit - MulMicro(z, s4) \div 42
        s2 == MicroUnit - MulMicro(z, s3) \div 20
        s1 == MicroUnit - MulMicro(z, s2) \div 6
    IN  MulMicro(t, s1)

CosMicro(t) ==
    LET a == Abs(t)
    IN  IF 2 * a <= HalfPiMicro THEN CosSmall(a)
        ELSE IF a <= HalfPiMicro THEN SinSmall(HalfPiMicro - a)
        ELSE -SinSmall(a - HalfPiMicro)

SinMicro(t) ==
    LET a == Abs(t)
        s == IF 2 * a <= HalfPiMicro THEN SinSmall(a)
             ELSE IF a <= HalfPiMicro THEN CosSmall(HalfPiMicro - a)
             ELSE CosSmall(a - HalfPiMicro)
    IN  IF t < 0 THEN -s ELSE s

\* cos(theta) and sin(theta) of lines 738-739
Cos(theta) == CosMicro(TruncDiv(theta, AngleUnit \div MicroUnit))

Sin(theta) == SinMicro(TruncDiv(theta, AngleUnit \div MicroUnit))

\* the angle of [0, pi / 2], in units of 10^-6 radian, whose tangent is
\* row / col (row > 0, col > 0)
RECURSIVE AtanBisect(_, _, _, _)
AtanBisect(row, col, lo, hi) ==
    IF hi - lo <= 1 THEN lo
    ELSE LET mid == (lo + hi) \div 2
         IN  IF SinMicro(mid) * col <= CosMicro(mid) * row
             THEN AtanBisect(row, col, mid, hi)
             ELSE AtanBisect(row, col, lo, mid)

\* atan2(rowGradient, colGradient) of line 693
Atan2(row, col) ==
    IF row = 0 THEN (IF col >= 0 THEN 0 ELSE AtanOfBackward)
    ELSE IF col = 0 THEN (IF row > 0 THEN AtanOfVertical ELSE -AtanOfVertical)
    ELSE LET a == (AngleUnit \div MicroUnit) * AtanBisect(Abs(row), Abs(col), 0, HalfPiMicro)
             b == IF col > 0 THEN a ELSE AtanOfBackward - a
         IN  IF row > 0 THEN b ELSE -b

\* approximateMath.h:139-153, for the value n / d (d > 0)
RoundDoubleToInt(n, d) ==
    LET intValue == TruncDiv(n, d)
        roundUpDifference == (intValue + 1) * d - n
        roundDownDifference == n - intValue * d
    IN  IF roundUpDifference < roundDownDifference THEN intValue + 1 ELSE intValue

\* approximateMath.h:103-127, value and precision in the same unit
LimitDoubleToFixedPrecision(value, precision) ==
    LET truncatedNumPrecisionUnits == TruncDiv(value, precision)
        roundUpDifference == (truncatedNumPrecisionUnits + 1) * precision - value
        roundDownDifference == value - truncatedNumPrecisionUnits * precision
        intNumPrecisionUnits ==
            IF roundUpDifference < roundDownDifference
            THEN truncatedNumPrecisionUnits + 1
            ELSE truncatedNumPrecisionUnits
    IN  intNumPrecisionUnits * precision

----------------------------------------------------------------------------
(* The detector state DetectLines derives from its arguments, lines 592-622 *)

MinXPos == IF box.left < 0 THEN 0 ELSE box.left

MinYPos == IF box.top < 0 THEN 0 ELSE box.top

\* lines 600-607: a negative right or bottom replaces both by the image size
MaxXPos == IF box.right < 0 \/ box.bottom < 0 THEN width ELSE box.right

MaxYPos == IF box.right < 0 \/ box.bottom < 0 THEN height ELSE box.bottom

BoxWidth == MaxXPos - MinXPos

BoxHeight == MaxYPos - MinYPos

\* (uint32) sqrt((double) n)
ISqrt(n) == CHOOSE r \in 0 .. n : r * r <= n /\ n < (r + 1) * (r + 1)

\* lines 614-616: the value given to m_MaxPerpendicularLength
DiagonalLength == ISqrt(BoxWidth * BoxWidth + BoxHeight * BoxHeight)

MaxPerpendicularLength == maxLength

\* line 617
MinPerpendicularLength == -MaxPerpendicularLength

NumPossibleLengthValues == 2 * MaxPerpendicularLength

\* lines 621-622
NumEntriesInVoteArray == (NumPossibleLengthValues + 1) * (NumPossibleAngleValues + 1)

----------------------------------------------------------------------------
(* The accumulator: GetPossibleLine, lineDetection.cpp:445-471 *)

\* an entry of the memCalloc'ed array (line 625)
ZeroCell == [votes |-> 0, A |-> Pt(0, 0), B |-> Pt(0, 0), recorded |-> FALSE]

\* the index GetPossibleLine derives; rho is in units of 10^-6
IndexOf(theta, rho) ==
    LET thetaOffset == theta - MinPerpendicularLineAngle
        rhoOffset == rho - MinPerpendicularLength * MicroUnit
        intThetaOffset == RoundDoubleToInt(thetaOffset, AngleIncrement)
        intRhoOffset == RoundDoubleToInt(rhoOffset, MicroUnit)
    IN  intRhoOffset * NumPossibleAngleValues + intThetaOffset

\* the entry at an index of the array
CellAt(array, index) == IF index \in DOMAIN array THEN array[index] ELSE ZeroCell

\* the least and the greatest of the indices computed so far
NoteIndices(range, indices) ==
    LET all == range \cup indices
    IN  IF all = {} THEN {}
        ELSE {CHOOSE i \in all : \A j \in all : i <= j,
              CHOOSE i \in all : \A j \in all : i >= j}

----------------------------------------------------------------------------
(* CEdgeDetectionTable, edgeDetection.cpp:203-310 *)

\* a CEdgeDetectionEntry with the given m_GrayScaleValue
GrayEntry(gray) == [isEdge |-> 0, gray |-> gray, direction |-> 0, gradient |-> 0]

\* the clamping each query makes on one coordinate
\* (x < 0, y < 0, x > m_MaxXPos, y > m_MaxYPos)
ClampCoordinate(v, maxPos) == IF v < 0 THEN 0 ELSE IF v > maxPos THEN maxPos ELSE v

\* the index into m_pInfoTable each query derives: (y * m_MaxXPos) + x
TableIndex(x, y) == ClampCoordinate(y, height) * width + ClampCoordinate(x, width)

\* the table has m_MaxXPos * m_MaxYPos entries (lines 161-162)
InsideTable(index) == 0 <= index /\ index < width * height

\* edgeDetection.cpp:127
MAX_GRADIENT_FOR_STRAIGHT_LINE == 10

\* what a read behind the table can find there
StrayEntries ==
    {GrayEntry(0), [isEdge |-> 1, gray |-> 255, direction |-> 255, gradient |-> -1]}

\* the entry at (y * m_MaxXPos) + x of a table; stray gives the memory behind it
EntryIn(table, x, y, stray) ==
    IF InsideTable(TableIndex(x, y)) THEN table[TableIndex(x, y)]
    ELSE stray[TableIndex(x, y)]

\* the entry a query reads; stray gives the memory behind the table
EntryAt(x, y, stray) == EntryIn(infoTable, x, y, stray)

\* lines 203-222
GetLuminance(x, y, stray) == EntryAt(x, y, stray).gray

\* lines 230-253
IsEdge(x, y, stray) == EntryAt(x, y, stray).isEdge > 0

\* lines 263-282
GetGradientDirection(x, y, stray) == EntryAt(x, y, stray).direction

\* lines 291-310
GetGradient(x, y, stray) == EntryAt(x, y, stray).gradient

\* the indices behind the table among those of the given pixels
StrayIndicesOf(pixels) ==
    {i \in {TableIndex(p[1], p[2]) : p \in pixels} : ~InsideTable(i)}

\* the eight neighbours read at lines 668-675
Neighbours(x, y) ==
    {Pt(x + dx, y + dy) : dx \in {-1, 0, 1}, dy \in {-1, 0, 1}} \ {Pt(x, y)}

\* the indices outside the table that voting for (x, y) reads
StrayIndices(x, y) == StrayIndicesOf(Neighbours(x, y))

----------------------------------------------------------------------------
(* The voting pass for one black pixel, lineDetection.cpp:647-779 *)

\* lines 668-713: the gradient angle of the pixel, limited to the increment
GradientAngle(x, y, stray) ==
    LET pixelAbove      == GetLuminance(x, y - 1, stray)
        pixelBelow      == GetLuminance(x, y + 1, stray)
        pixelLeft       == GetLuminance(x - 1, y, stray)
        pixelRight      == GetLuminance(x + 1, y, stray)
        pixelAboveLeft  == GetLuminance(x - 1, y - 1, stray)
        pixelAboveRight == GetLuminance(x + 1, y - 1, stray)
        pixelBelowLeft  == GetLuminance(x - 1, y + 1, stray)
        pixelBelowRight == GetLuminance(x + 1, y + 1, stray)
        rowGradient == ((2 * pixelBelow) + pixelBelowLeft + pixelBelowRight)
                          - ((2 * pixelAbove) + pixelAboveLeft + pixelAboveRight)
        colGradient == ((2 * pixelLeft) + pixelAboveLeft + pixelBelowLeft)
                          - ((2 * pixelRight) + pixelAboveRight + pixelBelowRight)
        angle0 == Atan2(rowGradient, colGradient)
        angle1 == IF angle0 < MinPerpendicularLineAngle
                  THEN angle0 + PerpendicularLineAngleModulo ELSE angle0
        angle2 == IF angle1 >= MaxPerpendicularLineAngle
                  THEN angle1 - PerpendicularLineAngleModulo ELSE angle1
    IN  LimitDoubleToFixedPrecision(angle2, AngleIncrement)

\* lines 722-727 and 729-734: a bound of the sweep, kept inside [min, max]
ClampTheta(theta) ==
    IF theta < MinPerpendicularLineAngle THEN MinPerpendicularLineAngle
    ELSE IF theta >= MaxPerpendicularLineAngle THEN MaxPerpendicularLineAngle
    ELSE theta

StartTheta(angle) == ClampTheta(angle - AngleRangeAroundGradientInRadians)

EndTheta(angle) == ClampTheta(angle + AngleRangeAroundGradientInRadians)

\* line 736: the values theta takes in
\* for (theta = startTheta; theta < endTheta; theta += m_AngleIncrement)
SweepThetas(angle) ==
    LET startTheta == StartTheta(angle)
        endTheta == EndTheta(angle)
        count == IF endTheta <= startTheta THEN 0
                 ELSE (endTheta - startTheta + AngleIncrement - 1) \div AngleIncrement
    IN  {startTheta + k * AngleIncrement : k \in 0 .. count - 1}

\* the length with the test of lines 744-746 left out
PerpendicularLineLength_NoUpperClamp(x, y, theta) ==
    LET length == x * Cos(theta) - y * Sin(theta)
    IN  IF length < MinPerpendicularLength * MicroUnit
        THEN MinPerpendicularLength * MicroUnit
        ELSE length

\* lines 738-746: x cos(theta) - y sin(theta), kept inside [min, max]
PerpendicularLineLength(x, y, theta) ==
    LET length == x * Cos(theta) - y * Sin(theta)
    IN  IF length < MinPerpendicularLength * MicroUnit
        THEN MinPerpendicularLength * MicroUnit
        ELSE IF length > MaxPerpendicularLength * MicroUnit
        THEN MaxPerpendicularLength * MicroUnit
        ELSE length

\* the index pixel (x, y) votes for at theta (lines 748-751)
VoteIndex(x, y, theta) == IndexOf(theta, PerpendicularLineLength(x, y, theta))

\* lines 755-777: the endpoints of a cell after (x, y) voted for it
VotedA(cell, x, y) ==
    IF cell.votes = 0 THEN Pt(x, y)
    ELSE IF x < cell.A[1] \/ (x = cell.A[1] /\ y < cell.A[2]) THEN Pt(x, y)
    ELSE cell.A

\* point B with the tie on x left out of the test of lines 771-772
VotedB_NoTieBreak(cell, x, y) ==
    IF cell.votes = 0 THEN Pt(x, y)
    ELSE IF x > cell.B[1] THEN Pt(x, y)
    ELSE cell.B

VotedB(cell, x, y) ==
    IF cell.votes = 0 THEN Pt(x, y)
    ELSE IF x > cell.B[1] \/ (x = cell.B[1] /\ y > cell.B[2]) THEN Pt(x, y)
    ELSE cell.B

\* lines 755-778: a cell after (x, y) voted for it at n values of theta
Voted(cell, x, y, n) ==
    [cell EXCEPT !.votes = cell.votes + n,
                 !.A = VotedA(cell, x, y),
                 !.B = VotedB(cell, x, y)]

\* the index voted for at every theta of the sweep around angle
SweepIndices(x, y, angle) ==
    [theta \in SweepThetas(angle) |-> VoteIndex(x, y, theta)]

\* the array after every vote of the black pixel (x, y); indexAt is the
\* index at each theta of the sweep
VoteArrayAfter(array, x, y, indexAt) ==
    LET indices == {indexAt[theta] : theta \in DOMAIN indexAt}
        times(i) == Cardinality({theta \in DOMAIN indexAt : indexAt[theta] = i})
    IN  [i \in DOMAIN array \cup indices |->
            IF i \in indices THEN Voted(CellAt(array, i), x, y, times(i))
            ELSE array[i]]

\* history: the voters of every index after the votes of (x, y)
VotersAfter(x, y, indices) ==
    [i \in DOMAIN voters \cup indices |->
        IF i \in indices
        THEN (IF i \in DOMAIN voters THEN voters[i] ELSE {}) \cup {Pt(x, y)}
        ELSE voters[i]]

\* lines 635-636: the loops are inside the bounding box
InsideLoops == vx < MaxXPos /\ vy < MaxYPos

\* One iteration of the inner loop (lines 636-780): GetPixel, and the votes
\* of the pixel if it is black.  An error of GetPixel leaves DetectLines.
VotePixel ==
    /\ pc = "vote"
    /\ InsideLoops
    /\ IF ~PixelAccepted(vx, vy)
       THEN /\ pc' = "failed"
            /\ err' = EFail
            /\ UNCHANGED <<voteArray, vx, vy, voters, indexRange>>
       ELSE /\ pc' = pc
            /\ err' = err
            /\ IF vy + 1 < MaxYPos
               THEN vx' = vx /\ vy' = vy + 1
               ELSE vx' = vx + 1 /\ vy' = MinYPos
            /\ IF Pt(vx, vy) \in edges
               THEN \E stray \in [StrayIndices(vx, vy) -> StrayEntries] :
                    \E indexAt \in {SweepIndices(vx, vy, GradientAngle(vx, vy, stray))} :
                    \E indices \in {{indexAt[theta] : theta \in DOMAIN indexAt}} :
                        /\ voteArray' = VoteArrayAfter(voteArray, vx, vy, indexAt)
                        /\ voters' = VotersAfter(vx, vy, indices)
                        /\ indexRange' = NoteIndices(indexRange, indices)
               ELSE UNCHANGED <<voteArray, voters, indexRange>>
    /\ UNCHANGED <<hk, fullImage, outList, harvested, query, inputVars, lineVars,
                   pVoteArray, numAllocs, numFrees, nullDeref>>

\* lines 783-788: the voting loops are over, the harvest starts
StartHarvest ==
    /\ pc = "vote"
    /\ ~InsideLoops
    /\ pc' = "harvest"
    /\ hk' = 0
    /\ numPossibleLines' = 0
    /\ numLinesWithMinVotes' = 0
    /\ UNCHANGED <<voteArray, vx, vy, voters, indexRange, fullImage, outList,
                   harvested, query, inputVars, lineList, numLines,
                   numDuplicateLines, fed, exitVars>>

----------------------------------------------------------------------------
(* The harvest loops over the accumulator, lineDetection.cpp:789-811 *)

\* theta of the outer loop
HarvestTheta == MinPerpendicularLineAngle + hk * AngleIncrement

\* line 790: theta < m_MaxPerpendicularLineAngle
InsideHarvest == HarvestTheta < MaxPerpendicularLineAngle

\* lines 792-794: the values rho takes in the inner loop, in order
HarvestRhos ==
    [i \in 1 .. NumPossibleLengthValues |-> MinPerpendicularLength + i - 1]

\* line 796: the index of the cell the inner loop looks at
HarvestIndex(rho) == IndexOf(HarvestTheta, rho * MicroUnit)

\* the indices of this theta whose cell passes the test of lines 800-801
RealIndices ==
    LET indexAt(i) == HarvestIndex(HarvestRhos[i])
        all == [i \in DOMAIN HarvestRhos |-> indexAt(i)]
        real(index) == IsRealLine(CellAt(voteArray, index))
    IN  SelectSeq(all, real)

\* RecordOneLine for the cells at the given indices, one after the other
RECURSIVE RecordAll(_, _)
RecordAll(indices, st) ==
    IF indices = <<>> THEN st
    ELSE RecordAll(Tail(indices), RecordOneLine(voteArray[Head(indices)], st))

\* the place in the inner loop of the first cell that is a real line
FirstRealRho ==
    CHOOSE i \in DOMAIN HarvestRhos :
        /\ IsRealLine(CellAt(voteArray, HarvestIndex(HarvestRhos[i])))
        /\ \A j \in 1 .. i - 1 :
               ~IsRealLine(CellAt(voteArray, HarvestIndex(HarvestRhos[j])))

\* One iteration of the outer loop (lines 789-811): every rho at this theta.
\* When newex CBioCADLine returns NULL (line 925), RecordOneLine fails for
\* the first cell it is given, and DetectLines leaves the loops (line 806).
HarvestColumn ==
    /\ pc = "harvest"
    /\ InsideHarvest
    /\ \E real \in {RealIndices} :
       IF call.fails = "newex" /\ real # <<>>
       THEN /\ voteArray' = [voteArray EXCEPT ![real[1]].recorded = TRUE]
            /\ numLinesWithMinVotes' = numLinesWithMinVotes + 1
            /\ numPossibleLines' = numPossibleLines + FirstRealRho
            /\ indexRange' = NoteIndices(indexRange,
                                 {HarvestIndex(HarvestRhos[i]) : i \in 1 .. FirstRealRho})
            /\ fed' = Append(fed, voteArray[real[1]])
            /\ err' = EFail
            /\ pc' = "failed"
            /\ UNCHANGED <<hk, lineList, fullImage, numLines, numDuplicateLines>>
       ELSE \E marked \in {Range(real)} :
            \E st \in {RecordAll(real, DetectorState)} :
                /\ voteArray' = [i \in DOMAIN voteArray |->
                                    IF i \in marked
                                    THEN [voteArray[i] EXCEPT !.recorded = TRUE]
                                    ELSE voteArray[i]]
                /\ numLinesWithMinVotes' = numLinesWithMinVotes + Len(real)
                /\ lineList' = st.lineList
                /\ fullImage' = st.fullImage
                /\ numLines' = st.numLines
                /\ numDuplicateLines' = st.numDuplicateLines
                /\ fed' = fed \o [i \in DOMAIN real |-> voteArray[real[i]]]
                /\ numPossibleLines' = numPossibleLines + NumPossibleLengthValues
                /\ indexRange' = NoteIndices(indexRange,
                                     {HarvestIndex(HarvestRhos[i]) : i \in DOMAIN HarvestRhos})
                /\ hk' = hk + 1
                /\ UNCHANGED <<pc, err>>
    /\ UNCHANGED <<vx, vy, voters, outList, harvested, query, inputVars, pVoteArray,
                   numAllocs, numFrees, nullDeref>>

Init ==
    /\ pc = "cells"
    /\ squishy \in BOOLEAN
    /\ edges \in EdgeImages
    /\ width = ImageWidth
    /\ height = ImageHeight
    /\ infoTable = Empty
    /\ srcImage = Empty
    /\ blackWhiteThreshold = 0
    /\ rawChange = Empty
    /\ query = NoQuery
    /\ box = WholeImage
    /\ maxLength = DiagonalLength
    /\ fullImage = {}
    /\ voteArray = Empty
    /\ vx = 0
    /\ vy = 0
    /\ hk = 0
    /\ voters = Empty
    /\ indexRange = {}
    /\ lineList = <<>>
    /\ numLines = 0
    /\ numDuplicateLines = 0
    /\ numLinesWithMinVotes = 0
    /\ numPossibleLines = 0
    /\ outList = <<>>
    /\ fed = <<>>
    /\ harvested = <<>>
    /\ call = PlainCall
    /\ err = ENoErr
    /\ pVoteArray = "allocated"
    /\ numAllocs = 1
    /\ numFrees = 0
    /\ nullDeref = FALSE

\* lines 795-809: one iteration of the harvest loop
HarvestCell ==
    /\ pc = "cells"
    /\ numPossibleLines < MaxCells
    /\ \E cell \in HarvestCells :
        /\ numPossibleLines' = numPossibleLines + 1
        /\ IF IsRealLine(cell)
           THEN LET r == RecordOneLine(cell, DetectorState)
                IN  /\ numLinesWithMinVotes' = numLinesWithMinVotes + 1
                    /\ lineList' = r.lineList
                    /\ fullImage' = r.fullImage
                    /\ numLines' = r.numLines
                    /\ numDuplicateLines' = r.numDuplicateLines
                    /\ fed' = Append(fed, cell)
           ELSE UNCHANGED <<numLinesWithMinVotes, lineList, fullImage, numLines,
                            numDuplicateLines, fed>>
    /\ UNCHANGED <<pc, outList, harvested, query, inputVars, voteVars, exitVars>>

\* the end of the harvest without line 818: the pointer keeps its value
EndHarvest_KeepsPointer ==
    /\ pc = "cells" \/ (pc = "harvest" /\ ~InsideHarvest)
    /\ pc' = "deliver"
    /\ numFrees' = numFrees + MemFree(pVoteArray)
    /\ UNCHANGED <<fullImage, outList, harvested, query, inputVars, voteVars, lineVars,
                   err, pVoteArray, numAllocs, nullDeref>>

\* lines 814-818: the loops are over, the vote array is freed
EndHarvest ==
    /\ pc = "cells" \/ (pc = "harvest" /\ ~InsideHarvest)
    /\ pc' = "deliver"
    /\ pVoteArray' = "NULL"
    /\ numFrees' = numFrees + MemFree(pVoteArray)
    /\ UNCHANGED <<fullImage, outList, harvested, query, inputVars, voteVars, lineVars,
                   err, numAllocs, nullDeref>>

\* lines 832-841: if (pLineList), SetLineList, then
\* FilterLines(FILTER_BY_MIN_LENGTH); without pLineList the detector's lines
\* stay where they are
DeliverLines ==
    /\ pc = "deliver"
    /\ IF call.pLineList
       THEN /\ outList' = FilterLines(SetLineList(lineList), MinUsefulLineLength)
            /\ harvested' = lineList
            /\ lineList' = <<>>
       ELSE UNCHANGED <<outList, harvested, lineList>>
    /\ pc' = "done"
    /\ UNCHANGED <<fullImage, query, inputVars, voteVars, numLines, numDuplicateLines,
                   numLinesWithMinVotes, numPossibleLines, fed, exitVars>>

----------------------------------------------------------------------------
(* Spec: the harvest, the merge and the filter over sampled cells *)

Next == HarvestCell \/ EndHarvest \/ DeliverLines

Spec == Init /\ [][Next]_vars

----------------------------------------------------------------------------
(* SpecVote: the whole of DetectLines on small scenes *)

\* a luminance table of w * h entries that all hold v
UniformLuminance(w, h, v) == [i \in 0 .. w * h - 1 |-> GrayEntry(v)]

\* a luminance table of w * h entries: the luminance grows by 8 a row below
\* row 36, and falls by 4 a column right of column 8
ShadedLuminance(w, h) ==
    [i \in 0 .. w * h - 1 |->
        GrayEntry((IF i \div w > 36 THEN 8 * ((i \div w) - 36) ELSE 0)
                      + (IF i % w >= 8 THEN 4 * (11 - (i % w)) ELSE 12))]

\* a luminance table of w * h entries: the luminance grows by 20 a row
RowShadedLuminance(w, h) == [i \in 0 .. w * h - 1 |-> GrayEntry(20 * (i \div w))]

\* The scenes explored: the images and the bounding box DetectLines is given.
\*  - a vertical stroke that reaches the bottom row of a narrow image
\*  - a blob of 5 x 2 pixels and two more pixels on one of its rows, in a
\*    bounding box far below the origin, over a shaded background
\*  - a blob of 2 x 4 pixels in a bounding box far right of the origin
\*  - a horizontal stroke of 41 pixels over a background shaded row by row
\*  - a blob of 2 x 5 pixels in a bounding box far right of the origin
Scenes ==
    { [width |-> 4, height |-> 12, black |-> Band(1, 1, 0, 11),
       table |-> UniformLuminance(4, 12, 255), box |-> WholeImage],
      [width |-> 12, height |-> 46, black |-> Band(2, 6, 40, 41) \cup Band(9, 10, 41, 41),
       table |-> ShadedLuminance(12, 46),
       box |-> [left |-> 0, top |-> 38, right |-> 12, bottom |-> 44]],
      [width |-> 46, height |-> 6, black |-> Band(42, 43, 1, 4),
       table |-> UniformLuminance(46, 6, 255),
       box |-> [left |-> 40, top |-> 0, right |-> 46, bottom |-> 6]],
      [width |-> 46, height |-> 8, black |-> Band(2, 42, 5, 5),
       table |-> RowShadedLuminance(46, 8), box |-> WholeImage],
      [width |-> 46, height |-> 7, black |-> Band(42, 43, 1, 5),
       table |-> UniformLuminance(46, 7, 255),
       box |-> [left |-> 40, top |-> 0, right |-> 46, bottom |-> 7]] }

InitVote ==
    /\ pc = "vote"
    /\ squishy \in BOOLEAN
    /\ \E scene \in Scenes :
        /\ edges = scene.black
        /\ width = scene.width
        /\ height = scene.height
        /\ infoTable = scene.table
        /\ srcImage = Empty
        /\ blackWhiteThreshold = 0
        /\ rawChange = Empty
        /\ box = scene.box
    /\ maxLength = DiagonalLength
    /\ query = NoQuery
    /\ fullImage = {}
    /\ voteArray = Empty
    /\ vx = MinXPos
    /\ vy = MinYPos
    /\ hk = 0
    /\ voters = Empty
    /\ indexRange = {}
    /\ lineList = <<>>
    /\ numLines = 0
    /\ numDuplicateLines = 0
    /\ numLinesWithMinVotes = 0
    /\ numPossibleLines = 0
    /\ outList = <<>>
    /\ fed = <<>>
    /\ harvested = <<>>
    /\ call = PlainCall
    /\ err = ENoErr
    /\ pVoteArray = "allocated"
    /\ numAllocs = 1
    /\ numFrees = 0
    /\ nullDeref = FALSE

NextVote == VotePixel \/ StartHarvest \/ HarvestColumn \/ EndHarvest \/ DeliverLines

SpecVote == InitVote /\ [][NextVote]_vars

----------------------------------------------------------------------------
(* Queries of an edge detection table, edgeDetection.cpp:203-310 *)

MaxTableSide == 3

\* a table whose entries tell their index; flip chooses which half are edges
NumberedTable(w, h, flip) ==
    [i \in 0 .. w * h - 1 |->
        [isEdge |-> (i + flip) % 2, gray |-> 10 + i,
         direction |-> 100 + i, gradient |-> 1000 + i]]

InitLum ==
    /\ pc = "table"
    /\ squishy = FALSE
    /\ edges = {}
    /\ width \in 1 .. MaxTableSide
    /\ height \in 1 .. MaxTableSide
    /\ infoTable \in {NumberedTable(width, height, flip) : flip \in {0, 1}}
    /\ srcImage = Empty
    /\ blackWhiteThreshold = 0
    /\ rawChange = Empty
    /\ box = WholeImage
    /\ maxLength = 0
    /\ query = NoQuery
    /\ fullImage = {}
    /\ voteArray = Empty
    /\ vx = 0
    /\ vy = 0
    /\ hk = 0
    /\ voters = Empty
    /\ indexRange = {}
    /\ lineList = <<>>
    /\ numLines = 0
    /\ numDuplicateLines = 0
    /\ numLinesWithMinVotes = 0
    /\ numPossibleLines = 0
    /\ outList = <<>>
    /\ fed = <<>>
    /\ harvested = <<>>
    /\ call = PlainCall
    /\ err = ENoErr
    /\ pVoteArray = "NULL"
    /\ numAllocs = 0
    /\ numFrees = 0
    /\ nullDeref = FALSE

\* the coordinates a caller may pass on one axis
QueryRange(maxPos) == -1 .. maxPos + 1

\* the last query: its name, its arguments, the index it read and its result
Answer(name, x, y, result) ==
    [name |-> name, x |-> x, y |-> y, index |-> TableIndex(x, y), result |-> result]

QueryLuminance ==
    /\ pc = "table"
    /\ \E x \in QueryRange(width), y \in QueryRange(height) :
       \E stray \in [StrayIndicesOf({Pt(x, y)}) -> StrayEntries] :
           query' = Answer("GetLuminance", x, y, GetLuminance(x, y, stray))
    /\ UNCHANGED <<pc, fullImage, outList, harvested, inputVars, voteVars, lineVars,
                   exitVars>>

QueryIsEdge ==
    /\ pc = "table"
    /\ \E x \in QueryRange(width), y \in QueryRange(height) :
       \E stray \in [StrayIndicesOf({Pt(x, y)}) -> StrayEntries] :
           query' = Answer("IsEdge", x, y, IsEdge(x, y, stray))
    /\ UNCHANGED <<pc, fullImage, outList, harvested, inputVars, voteVars, lineVars,
                   exitVars>>

QueryGradientDirection ==
    /\ pc = "table"
    /\ \E x \in QueryRange(width), y \in QueryRange(height) :
       \E stray \in [StrayIndicesOf({Pt(x, y)}) -> StrayEntries] :
           query' = Answer("GetGradientDirection", x, y,
                           GetGradientDirection(x, y, stray))
    /\ UNCHANGED <<pc, fullImage, outList, harvested, inputVars, voteVars, lineVars,
                   exitVars>>

QueryGradient ==
    /\ pc = "table"
    /\ \E x \in QueryRange(width), y \in QueryRange(height) :
       \E stray \in [StrayIndicesOf({Pt(x, y)}) -> StrayEntries] :
           query' = Answer("GetGradient", x, y, GetGradient(x, y, stray))
    /\ UNCHANGED <<pc, fullImage, outList, harvested, inputVars, voteVars, lineVars,
                   exitVars>>

NextLum == QueryLuminance \/ QueryIsEdge \/ QueryGradientDirection \/ QueryGradient

SpecLum == InitLum /\ [][NextLum]_vars

----------------------------------------------------------------------------
(* SpecInit: CEdgeDetectionTable::Initialize, edgeDetection.cpp:322-472 *)

\* a pixel of the source image as ParsePixel splits it
Colour(red, green, blue) == [red |-> red, green |-> green, blue |-> blue]

Black == Colour(0, 0, 0)

Red == Colour(255, 0, 0)

Green == Colour(0, 255, 0)

Blue == Colour(0, 0, 255)

Yellow == Colour(255, 255, 0)

\* lines 491-518: (uint32) (0.30 red + 0.59 green + 0.11 blue).  For the
\* colours above the float sum is not within 0.04 of an integer, so the
\* truncation of the exact sum is the truncation of the float sum.
GetPixelLuminance(pixel) ==
    (30 * pixel.red + 59 * pixel.green + 11 * pixel.blue) \div 100

UniformImage(w, h) == [i \in 0 .. w * h - 1 |-> Black]

\* dark first column, bright elsewhere
ColumnImage(w, h) == [i \in 0 .. w * h - 1 |-> IF i % w = 0 THEN Black ELSE Yellow]

\* dark first row, bright elsewhere
RowImage(w, h) == [i \in 0 .. w * h - 1 |-> IF i \div w = 0 THEN Black ELSE Yellow]

\* a faint step from the first column to the others
FaintImage(w, h) == [i \in 0 .. w * h - 1 |-> IF i % w = 0 THEN Blue ELSE Red]

CheckeredImage(w, h) ==
    [i \in 0 .. w * h - 1 |-> IF ((i % w) + (i \div w)) % 2 = 0 THEN Red ELSE Green]

\* the source images explored, of w * h pixels; pixel (x, y) is at y * w + x
SourceImages(w, h) ==
    {UniformImage(w, h), ColumnImage(w, h), RowImage(w, h), FaintImage(w, h),
     CheckeredImage(w, h)}

\* the thresholds Initialize is called with
Thresholds == {0, 1, 25, 200}

\* lines 339-352: the table after the first pass.  m_GradientDirection and
\* m_Gradient keep what the memAlloc'ed memory held.
GrayScaleTable(src, junk) ==
    [i \in DOMAIN src |->
        [isEdge |-> 0, gray |-> GetPixelLuminance(src[i]) % 256,
         direction |-> junk.direction, gradient |-> junk.gradient]]

\* GetLuminance (lines 203-222) on a given table
LuminanceIn(table, x, y, stray) == EntryIn(table, x, y, stray).gray

\* lines 389-390
XChange(table, x, y, stray) ==
    ((2 * LuminanceIn(table, x + 1, y, stray)) + LuminanceIn(table, x + 1, y - 1, stray)
            + LuminanceIn(table, x + 1, y + 1, stray))
        - ((2 * LuminanceIn(table, x - 1, y, stray)) + LuminanceIn(table, x - 1, y - 1, stray)
            + LuminanceIn(table, x - 1, y + 1, stray))

\* lines 391-392
YChange(table, x, y, stray) ==
    ((2 * LuminanceIn(table, x, y - 1, stray)) + LuminanceIn(table, x - 1, y - 1, stray)
            + LuminanceIn(table, x + 1, y - 1, stray))
        - ((2 * LuminanceIn(table, x, y + 1, stray)) + LuminanceIn(table, x - 1, y + 1, stray)
            + LuminanceIn(table, x + 1, y + 1, stray))

\* lines 405-421: (int32) sqrt(xChange^2 + yChange^2), kept inside 0 .. 255
RawLuminanceChange(xChange, yChange) ==
    LET sum == xChange * xChange + yChange * yChange
    IN  IF sum >= 256 * 256 THEN 255
        ELSE CHOOSE r \in 0 .. 255 : r * r <= sum /\ sum < (r + 1) * (r + 1)

\* lines 433-462: PIXELS_BRIGHTER_..., part_002:60-67
GradientDirectionOf(xChange, yChange) ==
    IF Abs(yChange) <= MAX_GRADIENT_FOR_STRAIGHT_LINE
    THEN (IF xChange >= 0 THEN 1 ELSE 2)
    ELSE IF Abs(xChange) <= MAX_GRADIENT_FOR_STRAIGHT_LINE
    THEN (IF yChange >= 0 THEN 4 ELSE 3)
    ELSE IF xChange >= 0
    THEN (IF yChange >= 0 THEN 6 ELSE 7)
    ELSE (IF yChange >= 0 THEN 8 ELSE 5)

\* lines 427-466: the entry of a pixel after the second pass
EntryAfterThreshold(entry, xChange, yChange, threshold) ==
    IF threshold > 0
    THEN IF RawLuminanceChange(xChange, yChange) >= threshold
         THEN [entry EXCEPT !.isEdge = 1,
                            !.gradient = RawLuminanceChange(xChange, yChange),
                            !.direction = GradientDirectionOf(xChange, yChange)]
         ELSE [entry EXCEPT !.isEdge = 0]
    ELSE entry

\* every neighbour the second pass reads
AllNeighbours ==
    UNION {Neighbours(x, y) : x \in 0 .. width - 1, y \in 0 .. height - 1}

InitInit ==
    /\ pc = "allocated"
    /\ squishy = FALSE
    /\ edges = {}
    /\ width \in 1 .. MaxTableSide
    /\ height \in 1 .. MaxTableSide
    /\ srcImage \in SourceImages(width, height)
    /\ blackWhiteThreshold \in Thresholds
    /\ rawChange = Empty
    /\ infoTable = Empty
    /\ box = WholeImage
    /\ maxLength = 0
    /\ query = NoQuery
    /\ fullImage = {}
    /\ voteArray = Empty
    /\ vx = 0
    /\ vy = 0
    /\ hk = 0
    /\ voters = Empty
    /\ indexRange = {}
    /\ lineList = <<>>
    /\ numLines = 0
    /\ numDuplicateLines = 0
    /\ numLinesWithMinVotes = 0
    /\ numPossibleLines = 0
    /\ outList = <<>>
    /\ fed = <<>>
    /\ harvested = <<>>
    /\ call = PlainCall
    /\ err = ENoErr
    /\ pVoteArray = "NULL"
    /\ numAllocs = 0
    /\ numFrees = 0
    /\ nullDeref = FALSE

\* The whole of Initialize: the grayscale pass and the Sobel pass
Initialize ==
    /\ pc = "allocated"
    /\ \E junk \in StrayEntries :
       \E stray \in [StrayIndicesOf(AllNeighbours) -> StrayEntries] :
       \E gray \in {GrayScaleTable(srcImage, junk)} :
           /\ rawChange' =
                 [i \in DOMAIN gray |->
                     RawLuminanceChange(XChange(gray, i % width, i \div width, stray),
                                        YChange(gray, i % width, i \div width, stray))]
           /\ infoTable' =
                 [i \in DOMAIN gray |->
                     EntryAfterThreshold(gray[i],
                                         XChange(gray, i % width, i \div width, stray),
                                         YChange(gray, i % width, i \div width, stray),
                                         blackWhiteThreshold)]
    /\ pc' = "initialized"
    /\ UNCHANGED <<fullImage, outList, harvested, query, squishy, edges, width, height,
                   box, maxLength, srcImage, blackWhiteThreshold, call, voteVars,
                   lineVars, exitVars>>

NextInit == Initialize

SpecInit == InitInit /\ [][NextInit]_vars

----------------------------------------------------------------------------
(* SpecIndex: the cell GetPossibleLine gives for the (theta, rho) of the     *)
(* harvest loops, lineDetection.cpp:445-471 and 789-796                     *)

\* the greatest m_MaxPerpendicularLength explored
MaxDiagonal == 2

\* The steps k of the harvest loop over theta that are explored; theta is
\* m_MinPerpendicularLineAngle + k * m_AngleIncrement
SampledThetaSteps ==
    {0, 1, NumPossibleAngleValues \div 2, NumPossibleAngleValues - 1,
     NumPossibleAngleValues}

\* theta of step k of the loop of lines 789-791
ThetaOfStep(k) == MinPerpendicularLineAngle + k * AngleIncrement

InitIndex ==
    /\ pc = "index"
    /\ squishy = FALSE
    /\ edges = {}
    /\ width = 0
    /\ height = 0
    /\ infoTable = Empty
    /\ srcImage = Empty
    /\ blackWhiteThreshold = 0
    /\ rawChange = Empty
    /\ box = WholeImage
    /\ maxLength \in 1 .. MaxDiagonal
    /\ query = NoQuery
    /\ fullImage = {}
    /\ voteArray = Empty
    /\ vx = 0
    /\ vy = 0
    /\ hk = 0
    /\ voters = Empty
    /\ indexRange = {}
    /\ lineList = <<>>
    /\ numLines = 0
    /\ numDuplicateLines = 0
    /\ numLinesWithMinVotes = 0
    /\ numPossibleLines = 0
    /\ outList = <<>>
    /\ fed = <<>>
    /\ harvested = <<>>
    /\ call = PlainCall
    /\ err = ENoErr
    /\ pVoteArray = "allocated"
    /\ numAllocs = 1
    /\ numFrees = 0
    /\ nullDeref = FALSE

\* GetPossibleLine for two (theta, rho) of the loops: theta of a step that
\* passes the test of line 790, rho from -max to +max
GetTwoPossibleLines ==
    /\ pc = "index"
    /\ \E k1 \in SampledThetaSteps, k2 \in SampledThetaSteps :
       \E rho1 \in MinPerpendicularLength .. MaxPerpendicularLength :
       \E rho2 \in MinPerpendicularLength .. MaxPerpendicularLength :
           /\ ThetaOfStep(k1) < MaxPerpendicularLineAngle
           /\ ThetaOfStep(k2) < MaxPerpendicularLineAngle
           /\ query' = [name |-> "GetPossibleLine",
                        thetaOffset |-> <<k1, k2>>,
                        rhoOffset |-> <<rho1 - MinPerpendicularLength,
                                        rho2 - MinPerpendicularLength>>,
                        index |-> <<IndexOf(ThetaOfStep(k1), rho1 * MicroUnit),
                                    IndexOf(ThetaOfStep(k2), rho2 * MicroUnit)>>]
    /\ UNCHANGED <<pc, fullImage, outList, harvested, inputVars, voteVars, lineVars,
                   exitVars>>

NextIndex == GetTwoPossibleLines

SpecIndex == InitIndex /\ [][NextIndex]_vars

----------------------------------------------------------------------------
(* SpecLimit: LimitDoubleToFixedPrecision on the angles DetectLines gives   *)
(* it, approximateMath.h:103-127 and lineDetection.cpp:698-713              *)

\* the angles explored lie this many to an increment
SamplesPerIncrement == 10

\* the angles explored: those of [-PI/2, PI/2), the range lines 698-706 bring
\* the gradient angle into, a fraction of the increment apart
SampledAngles ==
    {v \in {k * (AngleIncrement \div SamplesPerIncrement) :
                k \in -((PIOver2 * SamplesPerIncrement) \div AngleIncrement) - 1
                        .. (PIOver2 * SamplesPerIncrement) \div AngleIncrement} :
        MinPerpendicularLineAngle <= v /\ v < MaxPerpendicularLineAngle}

InitLimit ==
    /\ pc = "limit"
    /\ squishy = FALSE
    /\ edges = {}
    /\ width = 0
    /\ height = 0
    /\ infoTable = Empty
    /\ srcImage = Empty
    /\ blackWhiteThreshold = 0
    /\ rawChange = Empty
    /\ box = WholeImage
    /\ maxLength = 0
    /\ query = NoQuery
    /\ fullImage = {}
    /\ voteArray = Empty
    /\ vx = 0
    /\ vy = 0
    /\ hk = 0
    /\ voters = Empty
    /\ indexRange = {}
    /\ lineList = <<>>
    /\ numLines = 0
    /\ numDuplicateLines = 0
    /\ numLinesWithMinVotes = 0
    /\ numPossibleLines = 0
    /\ outList = <<>>
    /\ fed = <<>>
    /\ harvested = <<>>
    /\ call = PlainCall
    /\ err = ENoErr
    /\ pVoteArray = "allocated"
    /\ numAllocs = 1
    /\ numFrees = 0
    /\ nullDeref = FALSE

\* lines 711-713: LimitDoubleToFixedPrecision(angle, m_AngleIncrement)
LimitAngle ==
    /\ pc = "limit"
    /\ \E v \in SampledAngles :
           query' = [name |-> "LimitDoubleToFixedPrecision", value |-> v,
                     result |-> LimitDoubleToFixedPrecision(v, AngleIncrement)]
    /\ UNCHANGED <<pc, fullImage, outList, harvested, inputVars, voteVars, lineVars,
                   exitVars>>

NextLimit == LimitAngle

SpecLimit == InitLimit /\ [][NextLimit]_vars

----------------------------------------------------------------------------
(* SpecCall: DetectLines from its entry to its return, with optional        *)
(* arguments and with steps that fail, lineDetection.cpp:489-866            *)

\* a line the caller's set holds before DetectLines is called
EarlierLine ==
    [id |-> 0, A |-> Pt(0, 0), B |-> Pt(30, 40), slope |-> Rat(4, 3),
     yint |-> RatOfInt(0), len2 |-> 2500, numPixels |-> 31, pixels |-> <<>>]

\* the steps of DetectLines that can fail: the allocation of the vote array
\* (line 625), the allocation of a line (line 925), and the two calls on the
\* rebuilt image (lines 849 and 854)
FailingSteps == {"memCalloc", "newex", "InitializeFromSource", "DrawLines"}

\* The calls explored: every argument given, with each failing step or
\* none; an image missing; each combination of the optional outputs.
Calls ==
    {CallOf(TRUE, TRUE, TRUE, TRUE, entry, fails) :
        entry \in {<<>>, <<EarlierLine>>}, fails \in FailingSteps \cup {"nothing"}}
    \cup {CallOf(FALSE, TRUE, TRUE, TRUE, <<EarlierLine>>, "nothing"),
          CallOf(TRUE, FALSE, TRUE, TRUE, <<EarlierLine>>, "nothing")}
    \cup {CallOf(TRUE, TRUE, lines, rebuilt, <<EarlierLine>>, "nothing") :
            lines \in BOOLEAN, rebuilt \in BOOLEAN}

\* The scenes explored:
\*  - a vertical stroke that reaches the bottom row of a narrow image
\*  - the same image with bounding boxes that have right = left, right < left,
\*    bottom = top, bottom < top
\*  - an image without pixels
\*  - the same stroke with a bounding box beyond the right edge of the image
CallScenes ==
    { [width |-> 4, height |-> 12, black |-> Band(1, 1, 0, 11),
       table |-> UniformLuminance(4, 12, 255), box |-> b] :
        b \in { WholeImage,
                [left |-> 2, top |-> 0, right |-> 2, bottom |-> 12],
                [left |-> 3, top |-> 0, right |-> 1, bottom |-> 12],
                [left |-> 0, top |-> 5, right |-> 4, bottom |-> 5],
                [left |-> 0, top |-> 7, right |-> 4, bottom |-> 2],
                [left |-> 6, top |-> 0, right |-> 8, bottom |-> 12] } }
    \cup { [width |-> 0, height |-> 0, black |-> {}, table |-> Empty,
            box |-> WholeImage] }

InitCall ==
    /\ pc = "entry"
    /\ squishy \in BOOLEAN
    /\ \E scene \in CallScenes :
        /\ edges = scene.black
        /\ width = scene.width
        /\ height = scene.height
        /\ infoTable = scene.table
        /\ srcImage = Empty
        /\ blackWhiteThreshold = 0
        /\ rawChange = Empty
        /\ box = scene.box
    /\ maxLength = DiagonalLength
    /\ query = NoQuery
    /\ fullImage = {}
    /\ voteArray = Empty
    /\ vx = MinXPos
    /\ vy = MinYPos
    /\ hk = 0
    /\ voters = Empty
    /\ indexRange = {}
    /\ lineList = <<>>
    /\ numLines = 0
    /\ numDuplicateLines = 0
    /\ numLinesWithMinVotes = 0
    /\ numPossibleLines = 0
    /\ call \in Calls
    /\ outList = call.entryList
    /\ fed = <<>>
    /\ harvested = <<>>
    /\ err = ENoErr
    /\ pVoteArray = "NULL"
    /\ numAllocs = 0
    /\ numFrees = 0
    /\ nullDeref = FALSE

\* lines 518-628: the NULL checks, the set-up of the state and memCalloc
EnterDetectLines ==
    /\ pc = "entry"
    /\ IF ~call.pFullImage \/ ~call.pEdgesImage \/ call.fails = "memCalloc"
       THEN /\ err' = EFail
            /\ pc' = "failed"
            /\ UNCHANGED <<pVoteArray, numAllocs>>
       ELSE /\ pVoteArray' = "allocated"
            /\ numAllocs' = numAllocs + 1
            /\ pc' = "vote"
            /\ err' = err
    /\ UNCHANGED <<fullImage, outList, harvested, query, inputVars, voteVars, lineVars,
                   numFrees, nullDeref>>

\* a redraw whose failure empties the caller's line set
RedrawLines_DiscardsLines ==
    /\ pc = "done"
    /\ IF ~call.pRebuiltLineImage
       THEN pc' = "leaving" /\ UNCHANGED <<err, nullDeref, outList>>
       ELSE IF ~call.pLineList
       THEN pc' = "crashed" /\ nullDeref' = TRUE /\ UNCHANGED <<err, outList>>
       ELSE IF call.fails \in {"InitializeFromSource", "DrawLines"}
       THEN pc' = "failed" /\ err' = EFail /\ outList' = <<>> /\ nullDeref' = nullDeref
       ELSE pc' = "leaving" /\ UNCHANGED <<err, nullDeref, outList>>
    /\ UNCHANGED <<fullImage, harvested, query, inputVars, voteVars, lineVars,
                   pVoteArray, numAllocs, numFrees>>

\* lines 843-858: if (pRebuiltLineImage), GetLineList on pLineList, then
\* InitializeFromSource and DrawLines.  GetLineList is a virtual call on
\* pLineList, whether pLineList is NULL or not.
RedrawLines ==
    /\ pc = "done"
    /\ IF ~call.pRebuiltLineImage
       THEN pc' = "leaving" /\ UNCHANGED <<err, nullDeref>>
       ELSE IF ~call.pLineList
       THEN pc' = "crashed" /\ nullDeref' = TRUE /\ err' = err
       ELSE IF call.fails \in {"InitializeFromSource", "DrawLines"}
       THEN pc' = "failed" /\ err' = EFail /\ nullDeref' = nullDeref
       ELSE pc' = "leaving" /\ UNCHANGED <<err, nullDeref>>
    /\ UNCHANGED <<fullImage, outList, harvested, query, inputVars, voteVars, lineVars,
                   pVoteArray, numAllocs, numFrees>>

\* an abort that hands the detector's lines to the caller's line set
ReturnFromDetectLines_DeliversLines ==
    /\ pc \in {"leaving", "failed"}
    /\ pVoteArray' = "NULL"
    /\ numFrees' = numFrees + MemFree(pVoteArray)
    /\ pc' = "returned"
    /\ outList' = IF pc = "failed" /\ call.pLineList THEN SetLineList(lineList)
                  ELSE outList
    /\ UNCHANGED <<fullImage, harvested, query, inputVars, voteVars, lineVars,
                   err, numAllocs, nullDeref>>

\* lines 860-865: abort, where every path ends: memFree and return
ReturnFromDetectLines ==
    /\ pc \in {"leaving", "failed"}
    /\ pVoteArray' = "NULL"
    /\ numFrees' = numFrees + MemFree(pVoteArray)
    /\ pc' = "returned"
    /\ UNCHANGED <<fullImage, outList, harvested, query, inputVars, voteVars, lineVars,
                   err, numAllocs, nullDeref>>

NextCall ==
    \/ EnterDetectLines
    \/ VotePixel
    \/ StartHarvest
    \/ HarvestColumn
    \/ EndHarvest
    \/ DeliverLines
    \/ RedrawLines
    \/ ReturnFromDetectLines

SpecCall == InitCall /\ [][NextCall]_vars

----------------------------------------------------------------------------
(* Properties of the detector and of the edge detection table *)

RealLength2(line) == Dist2(line.A, line.B)

Ids(lines) == {lines[i].id : i \in DOMAIN lines}

\* the signed comparison |v1 - v2| <= resolution
WithinSigned(v1, v2, resolution) == RatLeq(RatAbs(RatSub(v1, v2)), resolution)

XRangesOverlap(s, t) == s.A[1] <= t.B[1] /\ t.A[1] <= s.B[1]

\* C1: the delivered list holds exactly the accepted segments whose distance
\* between their final endpoints is at least min_useful_length.
C1_DeliveredIffLongEnough ==
    pc = "done" =>
        \A i \in DOMAIN harvested :
            (harvested[i].id \in Ids(outList))
                <=> (RealLength2(harvested[i]) >= MinUsefulLineLength * MinUsefulLineLength)

\* C2: when the harvest is over no two distinct accepted segments have slopes
\* within angle_resolution, intercepts within min_point_resolution and
\* overlapping x-ranges.
C2_NoSimilarOverlappingPair ==
    pc = "deliver" =>
        \A i, j \in DOMAIN lineList :
            i # j =>
                ~ /\ WithinSigned(lineList[i].slope, lineList[j].slope,
                                  AngleResolutionInRadians)
                  /\ WithinSigned(lineList[i].yint, lineList[j].yint,
                                  RatOfInt(MinPointResolution))
                  /\ XRangesOverlap(lineList[i], lineList[j])

CellSlope(cell) == SlopeOf(cell.A, cell.B)

CellIntercept(cell) == InterceptOf(cell.A, CellSlope(cell))

Min(a, b) == IF a < b THEN a ELSE b

Max(a, b) == IF a > b THEN a ELSE b

\* C3: two parallel candidates with overlapping x-ranges, in either order:
\* intercepts more than min_point_resolution apart give two segments, else
\* one segment from the minimum-x endpoint to the maximum-x endpoint.
C3_ParallelPairMergesOrNot ==
    (Len(fed) = 2 /\ CellSlope(fed[1]) = CellSlope(fed[2])
                  /\ XRangesOverlap(fed[1], fed[2])) =>
        IF WithinSigned(CellIntercept(fed[1]), CellIntercept(fed[2]),
                        RatOfInt(MinPointResolution))
        THEN /\ Len(lineList) = 1
             /\ lineList[1].A \in {fed[1].A, fed[2].A}
             /\ lineList[1].A[1] = Min(fed[1].A[1], fed[2].A[1])
             /\ lineList[1].B \in {fed[1].B, fed[2].B}
             /\ lineList[1].B[1] = Max(fed[1].B[1], fed[2].B[1])
        ELSE Len(lineList) = 2

OrderedEndpoints(line) ==
    /\ line.A[1] <= line.B[1]
    /\ (line.A[1] = line.B[1] => line.A[2] <= line.B[2])

\* C4: after any sequence of admissions and merges every accepted segment has
\* A.x <= B.x, and A.y <= B.y when A.x = B.x.
C4_EndpointsOrdered ==
    /\ \A i \in DOMAIN lineList : OrderedEndpoints(lineList[i])
    /\ \A i \in DOMAIN outList : OrderedEndpoints(outList[i])

\* C4 witness: a vertical accepted segment that has absorbed a later candidate
C4_Witness ==
    /\ numDuplicateLines >= 1
    /\ Len(lineList) = 1
    /\ lineList[1].A[1] = lineList[1].B[1]
    /\ lineList[1].A[2] < lineList[1].B[2]

\* the pixels that voted for the cell at index i
VotersOf(i) == IF i \in DOMAIN voters THEN voters[i] ELSE {}

LexMin(points) == CHOOSE p \in points : \A q \in points : LexLeq(p, q)

LexMax(points) == CHOOSE p \in points : \A q \in points : LexLeq(q, p)

C6_CandidatesReachThreshold ==
    \A k \in DOMAIN fed :
        fed[k].votes >= (IF squishy THEN MinVotesSquishy ELSE MinVotesStrict)

\* C6 witness: in the strict regime one scanned cell was handed on and another,
\* one vote short, was not
C6_Witness ==
    /\ ~squishy
    /\ Len(fed) >= 1
    /\ numPossibleLines > numLinesWithMinVotes

\* C7: DetectLines changes no pixel of the full image or of the edge image.
C7_ImagesUnchanged == [][fullImage' = fullImage /\ edges' = edges]_vars

\* C8 as stated: a segment admitted earlier precedes one admitted later in
\* the delivered list.
C8_InsertionOrder ==
    pc = "done" =>
        \A i, j \in DOMAIN outList : i < j => outList[i].id < outList[j].id

\* C8 amended: the delivered list is in reverse insertion order: a segment
\* admitted later precedes every surviving segment admitted before it.
C8_ReverseInsertionOrder ==
    pc = "done" =>
        \A i, j \in DOMAIN outList : i < j => outList[i].id > outList[j].id

\* C8 witness: two segments admitted one after the other both survive the filter
C8_Witness == pc = "done" /\ Len(outList) >= 2

\* the pixel whose entry a query is to return: each coordinate clamped to the
\* pixels of the image
NearestPixelIndex(x, y) ==
    ClampCoordinate(y, height - 1) * width + ClampCoordinate(x, width - 1)

FieldOf(entry, name) ==
    IF name = "GetLuminance" THEN entry.gray
    ELSE IF name = "IsEdge" THEN entry.isEdge > 0
    ELSE IF name = "GetGradientDirection" THEN entry.direction
    ELSE entry.gradient

\* C9: for every (x, y), out of range or not, each of the four queries reads
\* an index within [0, W*H) and returns the entry of pixel
\* (clamp(x, 0, W-1), clamp(y, 0, H-1)).
C9_QueriesClampToNearestPixel ==
    query.name # "none" =>
        /\ 0 <= query.index /\ query.index < width * height
        /\ query.result = FieldOf(infoTable[NearestPixelIndex(query.x, query.y)],
                                  query.name)

\* C10: every index GetPossibleLine derived for the voting pass and for the
\* harvest satisfies 0 <= index < m_NumEntriesInVoteArray.
C10_IndexInsideVoteArray ==
    \A i \in indexRange : 0 <= i /\ i < NumEntriesInVoteArray

\* C10 witness: the run is over, the harvest derived index 0, and the voting
\* pass derived an index in the last row of the array, where rho was clamped
\* to the maximum length
C10_Witness ==
    /\ pc = "done"
    /\ 0 \in indexRange
    /\ \E i \in indexRange : i >= NumPossibleLengthValues * NumPossibleAngleValues

\* C11: after Initialize with threshold t, for every pixel IsEdge(x, y) is
\* true if and only if the pixel's Sobel magnitude, clipped to [0, 255], is
\* at least t; for every t >= 0, t = 0 included.
C11_EdgeIffMagnitudeReachesThreshold ==
    pc = "initialized" =>
        \A x \in 0 .. width - 1, y \in 0 .. height - 1 :
            IsEdge(x, y, Empty) <=> (rawChange[y * width + x] >= blackWhiteThreshold)


\* C12: when InitializeFromSource or DrawLines fails on the rebuilt image,
\* DetectLines returns that error, and the caller's line set holds the whole
\* filtered list of the lines that were harvested.
C12_SinkFailureKeepsLines ==
    [][ /\ (pc = "done" /\ pc' = "failed") =>
              /\ err' = EFail
              /\ outList' = FilterLines(harvested', MinUsefulLineLength)
        /\ (pc = "failed" /\ pc' = "returned") =>
              /\ err' = err
              /\ outList' = outList ]_vars

C12_Witness ==
    /\ pc = "returned"
    /\ call.fails = "DrawLines"
    /\ err = EFail
    /\ harvested # <<>>
    /\ outList = FilterLines(harvested, MinUsefulLineLength)
    /\ outList # call.entryList


\* the call met one of the fatal errors: an image argument is NULL, memCalloc
\* of the vote array failed, or the allocation of a line failed in RecordOneLine
FatalError ==
    \/ ~call.pFullImage
    \/ ~call.pEdgesImage
    \/ call.fails = "memCalloc"
    \/ call.fails = "newex" /\ fed # <<>>

\* C13: after a fatal error DetectLines returns an error that is not ENoErr,
\* and the caller's line set holds exactly the lines it held on entry.
C13_FatalErrorLeavesLineSet ==
    (pc = "returned" /\ FatalError) => (err # ENoErr /\ outList = call.entryList)

C13_Witness ==
    /\ pc = "returned"
    /\ call.fails = "newex"
    /\ fed # <<>>
    /\ err = EFail
    /\ call.entryList # <<>>
    /\ outList = call.entryList


\* the bounding box has non-negative coordinates and no area
DegenerateBox ==
    /\ box.left >= 0
    /\ box.top >= 0
    /\ box.right >= 0
    /\ box.bottom >= 0
    /\ (box.right <= box.left \/ box.bottom <= box.top)

\* the image has no pixels
ZeroAreaImage == width * height = 0

\* C14: with a degenerate bounding box (right <= left or bottom <= top) or an
\* image of zero area, DetectLines returns an error and delivers no lines.
C14_DegenerateInputIsAnError ==
    (pc = "returned" /\ (DegenerateBox \/ ZeroAreaImage)) =>
        (err # ENoErr /\ harvested = <<>>)


\* C15: when GetPixel fails on the edge image during the voting loops, the
\* pixel counts as a non-edge pixel: it casts no vote, the loops go on, and
\* DetectLines does not take the error as its own.
C15_PixelReadFailureIsNotFatal ==
    [][ (pc = "vote" /\ InsideLoops /\ ~PixelAccepted(vx, vy)) =>
            (pc' = "vote" /\ err' = err /\ voteArray' = voteArray) ]_vars


\* C16: whichever of pLineList and pRebuiltLineImage are NULL, DetectLines
\* runs to its end without dereferencing a NULL pointer.
C16_OptionalOutputsNeverDereferenced == ~nullDeref /\ pc # "crashed"

\* the positions of DetectLines where the vote array is read or written
UsesVoteArray == pc \in {"vote", "harvest", "cells"}

\* the positions of DetectLines after the harvest on the path without error
AfterHarvest == pc \in {"deliver", "done", "leaving"}

\* C17: the vote array, once allocated, is released exactly once on every
\* path; nothing reads it after its release; on the path without error it is
\* released after the harvest and before SetLineList, FilterLines and the
\* redraw.
C17_VoteArrayReleasedOnce ==
    /\ numFrees <= numAllocs
    /\ UsesVoteArray => (pVoteArray = "allocated" /\ numFrees = 0)
    /\ AfterHarvest => (pVoteArray = "NULL" /\ numFrees = 1)
    /\ pc = "returned" => (pVoteArray = "NULL" /\ numFrees = numAllocs)

C17_Witness ==
    /\ pc = "returned"
    /\ call.fails = "DrawLines"
    /\ err = EFail
    /\ numAllocs = 1
    /\ numFrees = 1
    /\ pVoteArray = "NULL"

\* C18: the NumLines counter DetectLines reports is the number of lines in
\* the filtered list the caller receives.
C18_NumLinesCountsDeliveredLines ==
    pc = "done" => numLines = Len(outList)

\* C19: GetLength() of every accepted line is the distance between the
\* endpoints the line has now, after every admission and every merge.
C19_LengthOfCurrentEndpoints ==
    \A i \in DOMAIN lineList :
        GetLength2(lineList[i]) = Dist2(lineList[i].A, lineList[i].B)

\* C20: every accepted line has slope = (B.y - A.y) / dx, with dx = 1 when
\* B.x = A.x, and y-intercept = A.y - slope * A.x, computed from the endpoints
\* and the slope the line has now, after every admission and every merge.
C20_SlopeAndInterceptOfCurrentEndpoints ==
    \A i \in DOMAIN lineList :
        /\ lineList[i].slope = SlopeOf(lineList[i].A, lineList[i].B)
        /\ lineList[i].yint = InterceptOf(lineList[i].A, lineList[i].slope)


\* the candidate of a cell is within the tolerances of an existing line, by
\* the signed differences of the slopes and of the y-intercepts
SignedSimilar(existing, cell) ==
    /\ WithinSigned(CellSlope(cell), existing.slope, AngleResolutionInRadians)
    /\ WithinSigned(CellIntercept(cell), existing.yint, RatOfInt(MinPointResolution))

\* C21: a candidate is merged into an existing line only if the signed
\* difference of their slopes is at most angle_resolution and the signed
\* difference of their y-intercepts is at most min_point_resolution; lines
\* whose slopes or intercepts have opposite signs and differ by more are
\* never merged.
C21_MergedOnlyWhenSignedClose ==
    [][ (pc = "cells" /\ numDuplicateLines' > numDuplicateLines) =>
            \E i \in DOMAIN lineList :
                SignedSimilar(lineList[i], fed'[Len(fed')]) ]_vars


\* the cells of the vote array that reached the threshold
CellsWithMinVotes ==
    {i \in DOMAIN voteArray : voteArray[i].votes >= MinVotesForRealLine}

\* C22: when the harvest is over, every cell the voting left with at least
\* min_votes_for_real_line votes has been passed to RecordOneLine, once: the
\* cells of the row rho = +rho_max and of the last theta column included.
C22_EveryVotedCellIsHarvested ==
    (pc \in {"deliver", "done"} /\ hk > 0) =>
        /\ \A i \in CellsWithMinVotes : voteArray[i].recorded
        /\ numLinesWithMinVotes = Cardinality(CellsWithMinVotes)


\* the cells of the vote array whose m_fRecorded is set
RecordedCells == {i \in DOMAIN voteArray : voteArray[i].recorded}

\* C23: a harvest passes each cell to RecordOneLine at most once, also when
\* several (theta, rho) of the loops give the index of the same cell; the
\* recorded flag of a cell is false until then and is never cleared.
C23_CellRecordedAtMostOnce ==
    /\ [](pc = "vote" => RecordedCells = {})
    /\ [](pc \in {"vote", "harvest"} =>
              numLinesWithMinVotes = Cardinality(RecordedCells))
    /\ [][\A i \in RecordedCells : i \in DOMAIN voteArray' /\ voteArray'[i].recorded]_vars

\* the harvest met a recorded cell again: the cell of theta offset 0 in one
\* row is the cell of the last theta offset in the row before
C23_Witness ==
    /\ pc = "harvest"
    /\ hk = NumPossibleAngleValues + 1
    /\ \E i \in RecordedCells :
        /\ i % NumPossibleAngleValues = 0
        /\ i \div NumPossibleAngleValues \in 1 .. NumPossibleLengthValues - 1


\* the places of the accepted list whose line differs before and after a step
ChangedLines == {i \in DOMAIN lineList : i \in DOMAIN lineList' /\ lineList'[i] # lineList[i]}

\* C24: a candidate that is merged changes at most one accepted line: every
\* other accepted line keeps its endpoints, slope and y-intercept, and the
\* number of accepted lines stays the same.
C24_MergeChangesOneLine ==
    [][ (pc = "cells" /\ numDuplicateLines' > numDuplicateLines) =>
            /\ Len(lineList') = Len(lineList)
            /\ Cardinality(ChangedLines) <= 1 ]_vars


\* floor of a rational
RatFloor(r) == r.n \div r.d

\* the edge pixels at (x, floor(y) - 1), (x, floor(y)), (x, floor(y) + 1) with
\* y = slope * x + y_intercept, for the x from A.x to B.x of a line
PixelsAlong(line) ==
    {p \in edges :
        /\ p[1] \in line.A[1] .. line.B[1]
        /\ \E dy \in {-1, 0, 1} :
              p[2] = RatFloor(RatAdd(RatMul(RatOfInt(p[1]), line.slope), line.yint)) + dy}

\* C25: the member-pixel list of a newly admitted line holds exactly the
\* edge pixels at (x, floor(y) - 1), (x, floor(y)) and (x, floor(y) + 1) for
\* each x in [A.x, B.x], each of them once.
C25_MemberPixelsOfNewLine ==
    [][ (pc = "cells" /\ numLines' = numLines + 1) =>
            /\ Range(lineList'[1].pixels) = PixelsAlong(lineList'[1])
            /\ Len(lineList'[1].pixels) = Cardinality(Range(lineList'[1].pixels)) ]_vars


\* C26: m_NumPixels of every accepted line is the number of pixels in the
\* member-pixel list of the line.
C26_PixelCountIsListLength ==
    \A i \in DOMAIN lineList : lineList[i].numPixels = Len(lineList[i].pixels)

\* the member pixels of a line divided by the distance between its endpoints
\* is below 1 / 5
LowDensity(line) ==
    25 * Len(line.pixels) * Len(line.pixels) < Dist2(line.A, line.B)

\* C27: a candidate that overlaps no accepted line and whose member-pixel
\* count divided by its length is below 1 / 5 is not added to the accepted
\* list and NumLines is not incremented for it, in both regimes.
C27_LowDensityCandidateRejected ==
    [][ (pc = "cells" /\ numLines' = numLines + 1) => ~LowDensity(lineList'[1]) ]_vars


\* C28: the index of a cell is injective on the rounded offsets: two
\* (theta, rho) whose rounded theta offsets differ or whose rounded rho
\* offsets differ never give the same cell, for every theta offset from 0 to
\* n_theta the loops produce.
C28_IndexIsInjective ==
    (query.name = "GetPossibleLine" /\ query.index[1] = query.index[2]) =>
        /\ query.thetaOffset[1] = query.thetaOffset[2]
        /\ query.rhoOffset[1] = query.rhoOffset[2]


\* the number of theta steps from theta_center - range to theta_center + range
FullSweepSteps ==
    (2 * AngleRangeAroundGradientInRadians + AngleIncrement - 1) \div AngleIncrement

\* the cells whose votes a step changes
CellsVotedFor ==
    {i \in DOMAIN voteArray' : voteArray'[i].votes # CellAt(voteArray, i).votes}

\* the votes a step adds, over all cells: the pairs (cell, n) with n from 1
\* to the votes the step adds to the cell
VotesAdded ==
    Cardinality({c \in CellsVotedFor \X (1 .. 2 * FullSweepSteps) :
                    c[2] <= voteArray'[c[1]].votes - CellAt(voteArray, c[1]).votes})

\* C29: every black pixel of the bounding box casts one vote for each theta
\* step from theta_center - range to theta_center + range, whatever its
\* gradient angle: a step outside [theta_min, theta_max) is clamped, not
\* dropped, so every pixel casts the same number of votes.
C29_EveryPixelCastsFullSweep ==
    [][ (pc = "vote" /\ InsideLoops /\ IsBlackPixel(vx, vy)) =>
            VotesAdded = FullSweepSteps ]_vars


\* C30: LimitDoubleToFixedPrecision(v, p) is the multiple of p nearest to v
\* for every v in [-PI/2, PI/2), the negative v included.
C30_LimitIsNearestMultiple ==
    query.name = "LimitDoubleToFixedPrecision" =>
        /\ query.result % AngleIncrement = 0
        /\ 2 * Abs(query.result - query.value) <= AngleIncrement

====
